---- MODULE Spec2Model ----
(***************************************************************************)
(* A model of src/index.ts: one asynchronous operation, getChatResponse,   *)
(* which builds a two-message prompt, sends it once to the inference       *)
(* endpoint (ollama.chat), validates the reply, parses its text as JSON    *)
(* and settles with the parsed value or with a ChatResponseError.          *)
(*                                                                         *)
(* Representation of JavaScript values.                                    *)
(*   - prompt text, city names and error messages are TLA+ strings, joined *)
(*     with \o as the template literals join them;                         *)
(*   - the text of a reply (message.content) is a sequence of characters,  *)
(*     each a one-character string, because JSON.parse reads it character  *)
(*     by character;                                                       *)
(*   - a JSON value is a tagged record [t |-> tag, v |-> payload]; an      *)
(*     object's payload is the sequence of its members [k, v] in property  *)
(*     order, an array's the sequence of its items, a string's its         *)
(*     characters, a number's an exact decimal [m, e] meaning m * 10^e.    *)
(***************************************************************************)
EXTENDS Integers, Sequences, FiniteSets, TLC

(***************************************************************************)
(* JSON.parse (ECMA-404 grammar), as called by safeJsonParse.              *)
(***************************************************************************)
EOF == "EOF"

At(s, i) == IF i >= 1 /\ i <= Len(s) THEN s[i] ELSE EOF

WhiteSpace == {" ", "\t", "\n", "\r"}

\* Control characters (below U+0020); form feed and backspace are written by name.
ControlChars == {"\t", "\n", "\r", "FF", "BS"}

Digits == {"0", "1", "2", "3", "4", "5", "6", "7", "8", "9"}

HexDigits == Digits \cup {"a", "b", "c", "d", "e", "f", "A", "B", "C", "D", "E", "F"}

DigitVal(c) ==
  CASE c = "0" -> 0 [] c = "1" -> 1 [] c = "2" -> 2 [] c = "3" -> 3
    [] c = "4" -> 4 [] c = "5" -> 5 [] c = "6" -> 6 [] c = "7" -> 7
    [] c = "8" -> 8 [] c = "9" -> 9

JNull == [t |-> "null", v |-> << >>]

JBool(b) == [t |-> "boolean", v |-> b]

JNum(m, e) == [t |-> "number", v |-> [m |-> m, e |-> e]]

JStr(cs) == [t |-> "string", v |-> cs]

JArr(items) == [t |-> "array", v |-> items]

JObj(members) == [t |-> "object", v |-> members]

NoValue == [t |-> "undefined", v |-> << >>]

\* A parse step's result: the value and the index after it, or the index of
\* the offending character.
Ok(val, pos) == [ok |-> TRUE, val |-> val, pos |-> pos]

Fail(pos) == [ok |-> FALSE, val |-> NoValue, pos |-> pos]

RECURSIVE SkipWs(_, _)
SkipWs(s, i) == IF At(s, i) \in WhiteSpace THEN SkipWs(s, i + 1) ELSE i

RECURSIVE Pow10(_)
Pow10(n) == IF n <= 0 THEN 1 ELSE 10 * Pow10(n - 1)

\* The exact decimal m * 10^e with trailing zeros of m moved into e.
RECURSIVE Normal(_, _)
Normal(m, e) ==
  IF m = 0 THEN [m |-> 0, e |-> 0]
  ELSE IF m % 10 = 0 THEN Normal(m \div 10, e + 1)
  ELSE [m |-> m, e |-> e]

\* The run of digits from i: [n |-> its value, pos |-> index after it].
\* (Exact for runs of up to nine digits, which is all the model's texts hold.)
RECURSIVE ScanDigits(_, _, _)
ScanDigits(s, i, acc) ==
  IF At(s, i) \in Digits THEN ScanDigits(s, i + 1, 10 * acc + DigitVal(s[i]))
  ELSE [n |-> acc, pos |-> i]

\* number = [ - ] int [ frac ] [ exp ];  int = 0 | digit1-9 *digit.
\* The stages pass on: neg, whether a minus sign leads; mant, the digits read
\* so far as one integer; scale, how many of them follow the point.
NumberValue(neg, mant, e) ==
  JNum(IF neg THEN 0 - Normal(mant, e).m ELSE Normal(mant, e).m, Normal(mant, e).e)

\* The digits of the exponent, from e0.
NumberExpDigits(s, neg, mant, scale, eNeg, e0, exp) ==
  IF exp.pos = e0 THEN Fail(e0)
  ELSE Ok(NumberValue(neg, mant, (IF eNeg THEN 0 - exp.n ELSE exp.n) - scale), exp.pos)

\* The sign of the exponent, at i.
NumberExpSign(s, i, neg, mant, scale) ==
  IF At(s, i) \in {"-", "+"}
  THEN NumberExpDigits(s, neg, mant, scale, At(s, i) = "-", i + 1,
                       ScanDigits(s, i + 1, 0))
  ELSE NumberExpDigits(s, neg, mant, scale, FALSE, i, ScanDigits(s, i, 0))

\* After the integer and the fraction, at i: an exponent, or the end.
NumberExp(s, i, neg, mant, scale) ==
  IF At(s, i) \in {"e", "E"} THEN NumberExpSign(s, i + 1, neg, mant, scale)
  ELSE Ok(NumberValue(neg, mant, 0 - scale), i)

\* The digits of the fraction, from i0.
NumberFracDigits(s, i0, neg, int, frac) ==
  IF frac.pos = i0 THEN Fail(i0)
  ELSE NumberExp(s, frac.pos, neg, int * Pow10(frac.pos - i0) + frac.n, frac.pos - i0)

\* After the integer, at i: a fraction, or the exponent.
NumberFrac(s, i, neg, int) ==
  IF At(s, i) = "." THEN NumberFracDigits(s, i + 1, neg, int, ScanDigits(s, i + 1, 0))
  ELSE NumberExp(s, i, neg, int, 0)

\* The integer, from i0: a lone 0, or digits without a leading 0.
NumberInt(s, i0, neg, int) ==
  IF At(s, i0) \notin Digits THEN Fail(i0)
  ELSE IF At(s, i0) = "0" THEN NumberFrac(s, i0 + 1, neg, 0)
  ELSE NumberFrac(s, int.pos, neg, int.n)

ParseNumber(s, i) ==
  IF At(s, i) = "-" THEN NumberInt(s, i + 1, TRUE, ScanDigits(s, i + 1, 0))
  ELSE NumberInt(s, i, FALSE, ScanDigits(s, i, 0))

\* The character an escape \c stands for.
Unescape(c) ==
  CASE c = "b" -> "BS" [] c = "f" -> "FF" [] c = "n" -> "\n"
    [] c = "r" -> "\r" [] c = "t" -> "\t" [] OTHER -> c

\* The characters of a string literal from i (just after the opening quote)
\* to its closing quote. A \uXXXX escape yields the code unit, written as the
\* one model character "uXXXX".
RECURSIVE ParseChars(_, _, _)
ParseChars(s, i, acc) ==
  LET c == At(s, i) IN
  IF c = EOF THEN Fail(i)
  ELSE IF c = "\"" THEN Ok(JStr(acc), i + 1)
  ELSE IF c \in ControlChars THEN Fail(i)
  ELSE IF c = "\\" THEN
    LET d == At(s, i + 1) IN
    IF d \in {"\"", "\\", "/", "b", "f", "n", "r", "t"}
    THEN ParseChars(s, i + 2, Append(acc, Unescape(d)))
    ELSE IF d = "u" THEN
      IF \A k \in 2..5 : At(s, i + k) \in HexDigits
      THEN ParseChars(s, i + 6,
             Append(acc, "u" \o s[i + 2] \o s[i + 3] \o s[i + 4] \o s[i + 5]))
      ELSE Fail(CHOOSE k \in (i + 2)..(i + 5) :
                  /\ At(s, k) \notin HexDigits
                  /\ \A l \in (i + 2)..(k - 1) : At(s, l) \in HexDigits)
    ELSE Fail(i + 1)
  ELSE ParseChars(s, i + 1, Append(acc, c))

\* Whether the characters after i spell the literal word.
Spells(s, i, word) == \A k \in 1..Len(word) : At(s, i + k - 1) = word[k]

\* The index of the first character from i that departs from the literal.
Mismatch(s, i, word) ==
  CHOOSE p \in i..(i + Len(word) - 1) :
    /\ At(s, p) # word[p - i + 1]
    /\ \A q \in i..(p - 1) : At(s, q) = word[q - i + 1]

ParseLiteral(s, i, word, val) ==
  IF Spells(s, i, word) THEN Ok(val, i + Len(word)) ELSE Fail(Mismatch(s, i, word))

\* Canonical numeric strings compared as numbers: the shorter is the smaller,
\* and of two of one length the one smaller at the first differing digit.
NumLess(a, b) ==
  \/ Len(a) < Len(b)
  \/ /\ Len(a) = Len(b)
     /\ \E p \in 1..Len(a) :
          /\ DigitVal(a[p]) < DigitVal(b[p])
          /\ \A q \in 1..(p - 1) : a[q] = b[q]

\* 2^32 - 1, the first number that is no array index.
IndexLimit == <<"4", "2", "9", "4", "9", "6", "7", "2", "9", "5">>

\* An array index in the sense of property order: a canonical numeric string
\* below 2^32 - 1.
IsIndexKey(key) ==
  /\ Len(key) >= 1
  /\ \A k \in 1..Len(key) : key[k] \in Digits
  /\ (Len(key) = 1 \/ key[1] # "0")
  /\ NumLess(key, IndexLimit)

\* Defining property key on an object under construction: a repeated key
\* keeps its place and takes the new value; a new index key goes among the
\* index keys in ascending order; any other new key goes last.
Put(members, key, val) ==
  LET n == Len(members)
      Before(m) == IF IsIndexKey(key)
                   THEN IsIndexKey(m.k) /\ NumLess(m.k, key)
                   ELSE TRUE
      at == Cardinality({j \in 1..n : Before(members[j])})
  IN  IF \E j \in 1..n : members[j].k = key
      THEN [j \in 1..n |-> IF members[j].k = key
                           THEN [k |-> key, v |-> val] ELSE members[j]]
      ELSE SubSeq(members, 1, at) \o << [k |-> key, v |-> val] >>
             \o SubSeq(members, at + 1, n)

\* Below, CHOOSE r \in {F(x) : x \in {value}} : TRUE is F(value) with value
\* worked out once and then handed on: the parser reads each part of the text
\* once and carries the result forward.
RECURSIVE ParseValue(_, _)
RECURSIVE ParseMembers(_, _, _)
RECURSIVE ParseItems(_, _, _)

\* After a member, at m: "," and the next member, or "}".
MemberEnd(s, m, acc) ==
  IF At(s, m) = "," THEN ParseMembers(s, m + 1, acc)
  ELSE IF At(s, m) = "}" THEN Ok(JObj(acc), m + 1)
  ELSE Fail(m)

\* The member's value val has been read: it is defined on the object.
MemberValue(s, key, val, acc) ==
  IF ~val.ok THEN val
  ELSE CHOOSE r \in {MemberEnd(s, SkipWs(s, val.pos), acc2) :
                      acc2 \in {Put(acc, key, val.val)}} : TRUE

\* After the member's key, at c: ":" and the value.
MemberColon(s, key, c, acc) ==
  IF At(s, c) # ":" THEN Fail(c)
  ELSE CHOOSE r \in {MemberValue(s, key, val, acc) : val \in {ParseValue(s, c + 1)}} : TRUE

\* The member's key has been read.
MemberKey(s, key, acc) ==
  IF ~key.ok THEN key
  ELSE MemberColon(s, key.val.v, SkipWs(s, key.pos), acc)

\* A member starts at j with the quote of its key.
MemberAt(s, j, acc) ==
  IF At(s, j) # "\"" THEN Fail(j)
  ELSE CHOOSE r \in {MemberKey(s, key, acc) : key \in {ParseChars(s, j + 1, << >>)}} : TRUE

\* After "{" or ",": a member  string ws ":" value ws, then "," or "}".
ParseMembers(s, i, acc) == MemberAt(s, SkipWs(s, i), acc)

\* After an item, at m: "," and the next item, or "]".
ItemEnd(s, m, acc) ==
  IF At(s, m) = "," THEN ParseItems(s, m + 1, acc)
  ELSE IF At(s, m) = "]" THEN Ok(JArr(acc), m + 1)
  ELSE Fail(m)

\* The item val has been read.
ItemValue(s, val, acc) ==
  IF ~val.ok THEN val
  ELSE CHOOSE r \in {ItemEnd(s, SkipWs(s, val.pos), acc2) :
                      acc2 \in {Append(acc, val.val)}} : TRUE

\* After "[" or ",": an item  value ws, then "," or "]".
ParseItems(s, i, acc) ==
  CHOOSE r \in {ItemValue(s, val, acc) : val \in {ParseValue(s, i)}} : TRUE

\* After "{", at k: "}" of the empty object, or the members.
ObjectAt(s, k) ==
  IF At(s, k) = "}" THEN Ok(JObj(<< >>), k + 1) ELSE ParseMembers(s, k, << >>)

\* After "[", at k: "]" of the empty array, or the items.
ArrayAt(s, k) ==
  IF At(s, k) = "]" THEN Ok(JArr(<< >>), k + 1) ELSE ParseItems(s, k, << >>)

\* value = object | array | string | number | true | false | null, at j.
ValueAt(s, j) ==
  IF At(s, j) = "{" THEN ObjectAt(s, SkipWs(s, j + 1))
  ELSE IF At(s, j) = "[" THEN ArrayAt(s, SkipWs(s, j + 1))
  ELSE IF At(s, j) = "\"" THEN ParseChars(s, j + 1, << >>)
  ELSE IF At(s, j) = "-" \/ At(s, j) \in Digits THEN ParseNumber(s, j)
  ELSE IF At(s, j) = "t" THEN ParseLiteral(s, j, <<"t", "r", "u", "e">>, JBool(TRUE))
  ELSE IF At(s, j) = "f"
    THEN ParseLiteral(s, j, <<"f", "a", "l", "s", "e">>, JBool(FALSE))
  ELSE IF At(s, j) = "n" THEN ParseLiteral(s, j, <<"n", "u", "l", "l">>, JNull)
  ELSE Fail(j)

ParseValue(s, i) == ValueAt(s, SkipWs(s, i))

\* The exception JSON.parse throws: a SyntaxError naming the position of the
\* unexpected character (Len(s) + 1 for an unexpected end of input).
SyntaxError(pos) == [name |-> "SyntaxError", at |-> pos]

\* The text's one value r has been read; only white space may follow, to end.
ParseEnd(s, r, end) ==
  IF end <= Len(s) THEN [threw |-> TRUE, value |-> NoValue, error |-> SyntaxError(end)]
  ELSE [threw |-> FALSE, value |-> r.val, error |-> NoValue]

ParseText(s, r) ==
  IF ~r.ok THEN [threw |-> TRUE, value |-> NoValue, error |-> SyntaxError(r.pos)]
  ELSE ParseEnd(s, r, SkipWs(s, r.pos))

\* JSON.parse(text): [threw |-> FALSE, value] or [threw |-> TRUE, error].
JSONparse(s) == CHOOSE done \in {ParseText(s, r) : r \in {ParseValue(s, 1)}} : TRUE

(***************************************************************************)
(* Reply texts the model may emit (message.content), character by          *)
(* character.                                                              *)
(***************************************************************************)
\* The reply the prompt asks for: {"city":"London","industry":"Finance","fun":"Visit the British Museum"}
TextFull ==
  <<"{", "\"", "c", "i", "t", "y", "\"", ":", "\"", "L", "o", "n", "d", "o",
    "n", "\"", ",", "\"", "i", "n", "d", "u", "s", "t", "r", "y", "\"", ":",
    "\"", "F", "i", "n", "a", "n", "c", "e", "\"", ",", "\"", "f", "u", "n",
    "\"", ":", "\"", "V", "i", "s", "i", "t", " ", "t", "h", "e", " ", "B",
    "r", "i", "t", "i", "s", "h", " ", "M", "u", "s", "e", "u", "m", "\"",
    "}">>

\* A JSON object without the keys industry and fun: {"city":"Paris"}
TextMissingKeys ==
  <<"{", "\"", "c", "i", "t", "y", "\"", ":", "\"", "P", "a", "r", "i", "s",
    "\"", "}">>

\* A JSON object with none of the expected keys: {"town":"Rome","1":[true,null]}
TextOtherKeys ==
  <<"{", "\"", "t", "o", "w", "n", "\"", ":", "\"", "R", "o", "m", "e", "\"",
    ",", "\"", "1", "\"", ":", "[", "t", "r", "u", "e", ",", "n", "u", "l",
    "l", "]", "}">>

\* A JSON object that repeats a key: {"fun":"a","fun":"b"}
TextDuplicateKey ==
  <<"{", "\"", "f", "u", "n", "\"", ":", "\"", "a", "\"", ",", "\"", "f",
    "u", "n", "\"", ":", "\"", "b", "\"", "}">>

\* A JSON object laid out with white space and line breaks:  {\n  "city" : "Oslo"\n}\n
TextSpaced ==
  <<" ", "{", "\n", " ", " ", "\"", "c", "i", "t", "y", "\"", " ", ":", " ",
    "\"", "O", "s", "l", "o", "\"", "\n", "}", "\n">>

\* An unquoted key: not JSON: {city: London}
TextUnquotedKey ==
  <<"{", "c", "i", "t", "y", ":", " ", "L", "o", "n", "d", "o", "n", "}">>

\* A trailing comma: not JSON: {"city":"Lima",}
TextTrailingComma ==
  <<"{", "\"", "c", "i", "t", "y", "\"", ":", "\"", "L", "i", "m", "a", "\"",
    ",", "}">>

\* Prose before the object: not JSON: Sure! {"city":"Rome"}
TextProse ==
  <<"S", "u", "r", "e", "!", " ", "{", "\"", "c", "i", "t", "y", "\"", ":",
    "\"", "R", "o", "m", "e", "\"", "}">>

\* A JSON number: 42
TextNumber ==
  <<"4", "2">>

\* A JSON string: "London"
TextString ==
  <<"\"", "L", "o", "n", "d", "o", "n", "\"">>

\* The JSON literal null: null
TextNull ==
  <<"n", "u", "l", "l">>

\* The JSON literal true: true
TextTrue ==
  <<"t", "r", "u", "e">>

\* A JSON array holding an object: [{"city":"Bonn"}]
TextArray ==
  <<"[", "{", "\"", "c", "i", "t", "y", "\"", ":", "\"", "B", "o", "n", "n",
    "\"", "}", "]">>

(***************************************************************************)
(* Bounds of the model.                                                    *)
(***************************************************************************)
\* The number of getChatResponse invocations that may be in flight at once.
MaxCalls == 2

\* The length up to which every text over Alphabet is tried as a reply.
MaxLen == 3

(***************************************************************************)
(* JavaScript values of the program.                                       *)
(***************************************************************************)
Undefined == NoValue

\* A variant that leaves name as Error sets it.
ChatResponseErrorUnnamed(message, cause) ==
  [name |-> "Error", message |-> message, cause |-> cause]

\* class ChatResponseError extends Error: super(message) sets message, the
\* parameter property sets cause, the constructor body sets name.
ChatResponseError(message, cause) ==
  [name |-> "ChatResponseError", message |-> message, cause |-> cause]

\* How a call completes: it returns value, or it throws value.
Return(value) == [threw |-> FALSE, value |-> value]

Throw(error) == [threw |-> TRUE, value |-> error]

\* The states of a promise.
Pending == [state |-> "pending", value |-> Undefined]

Fulfilled(value) == [state |-> "fulfilled", value |-> value]

Rejected(error) == [state |-> "rejected", value |-> error]

\* ToBoolean, on the values message.content can hold.
Truthy(v) ==
  CASE v.t = "undefined" -> FALSE
    [] v.t = "null" -> FALSE
    [] v.t = "string" -> Len(v.v) > 0
    [] OTHER -> TRUE

(***************************************************************************)
(* safeJsonParse                                                           *)
(***************************************************************************)
\* A variant that rejects an object lacking one of the schema's keys.
safeJsonParseStrict(jsonString) ==
  IF JSONparse(jsonString).threw
       \/ JSONparse(jsonString).value.t # "object"
       \/ \E key \in {<<"c", "i", "t", "y">>, <<"f", "u", "n">>,
                      <<"i", "n", "d", "u", "s", "t", "r", "y">>} :
            \A n \in 1..Len(JSONparse(jsonString).value.v) :
              JSONparse(jsonString).value.v[n].k # key
  THEN Throw([name |-> "ChatResponseError", message |-> "Failed to parse JSON",
              cause |-> [cause |-> JSONparse(jsonString).error,
                         rawResponse |-> jsonString]])
  ELSE Return(JSONparse(jsonString).value)

\* A variant that attaches the parse exception alone, without the raw text.
safeJsonParseBare(jsonString) ==
  IF JSONparse(jsonString).threw
  THEN Throw([name |-> "ChatResponseError", message |-> "Failed to parse JSON",
              cause |-> JSONparse(jsonString).error])
  ELSE Return(JSONparse(jsonString).value)

safeJsonParse(jsonString) ==
  LET parsed == JSONparse(jsonString) IN
  IF parsed.threw
  THEN Throw(ChatResponseError("Failed to parse JSON",
               [cause |-> parsed.error, rawResponse |-> jsonString]))
  ELSE Return(parsed.value)

(***************************************************************************)
(* constructMessages, with JSON.stringify(schema, null, 2)                 *)
(***************************************************************************)
\* The schema literal of getChatResponse; its strings are TLA+ strings.
FieldSchema(description) ==
  JObj(<< [k |-> "type", v |-> JStr("string")],
          [k |-> "description", v |-> JStr(description)] >>)

ChatSchema ==
  JObj(<< [k |-> "city", v |-> FieldSchema("The city where the user is located.")],
          [k |-> "industry", v |-> FieldSchema(
             "The most popular industry in the city. What the city is known for.")],
          [k |-> "fun", v |-> FieldSchema(
             "One thing that is fun to do there on a day off.")] >>)

\* A quoted string (the schema's strings hold nothing that needs an escape).
Quote(str) == "\"" \o str \o "\""

\* JSON.stringify(value, null, 2) at indentation ind, for objects and strings.
RECURSIVE Stringify(_, _)
RECURSIVE StringifyMembers(_, _)
StringifyMembers(members, ind) ==
  LET first == ind \o Quote(members[1].k) \o ": " \o Stringify(members[1].v, ind)
  IN  IF Len(members) = 1 THEN first
      ELSE first \o ",\n" \o StringifyMembers(Tail(members), ind)

Stringify(value, ind) ==
  IF value.t = "string" THEN Quote(value.v)
  ELSE IF value.v = << >> THEN "{}"
  ELSE "{\n" \o StringifyMembers(value.v, ind \o "  ") \o "\n" \o ind \o "}"

JSONstringify(value) == Stringify(value, "")

PromptHead ==
  "You are an assistant that provides detailed information about cities. "
  \o "When given a city name, describe the city including its major industry "
  \o "and one fun activity to do there. Ensure the response is strictly in "
  \o "JSON format adhering to the following schema:\n      \n"

PromptTail ==
  "\n      \nDo not include any additional text or explanations outside of "
  \o "the JSON object."

\* A variant that replaces an empty city by a default.
constructMessagesDefaultCity(c, schema) ==
  << [role |-> "system",
      content |-> PromptHead \o JSONstringify(schema) \o PromptTail],
     [role |-> "user", content |-> IF c = "" THEN "Unknown" ELSE c] >>

constructMessages(c, schema) ==
  << [role |-> "system",
      content |-> PromptHead \o JSONstringify(schema) \o PromptTail],
     [role |-> "user", content |-> c] >>

(***************************************************************************)
(* isValidResponse                                                         *)
(***************************************************************************)
\* response.message?.content
MessageContent(response) ==
  IF response.message.t \in {"undefined", "null"} THEN Undefined
  ELSE response.message.content

\* A variant that asks only whether content is a string.
isValidResponseAnyString(response) == MessageContent(response).t = "string"

isValidResponse(response) == Truthy(MessageContent(response))

(***************************************************************************)
(* The inference endpoint: what ollama.chat may settle with.               *)
(***************************************************************************)
\* A ChatResponse whose message holds content (a string, or undefined).
ResponseWith(content) ==
  [message |-> [t |-> "object", role |-> "assistant", content |-> content]]

\* A ChatResponse without a message.
ResponseNoMessage == [message |-> Undefined]

\* Errors the client may reject with: no connection, and a non-success status.
FetchFailed == [name |-> "TypeError", message |-> "fetch failed", cause |-> Undefined]

ModelNotFound ==
  [name |-> "ResponseError", message |-> "model 'gemma:2b' not found", cause |-> Undefined]

TransportErrors == {FetchFailed, ModelNotFound}

\* The settlements of ollama.chat for a set of reply texts.
Settlements(texts) ==
  {Rejected(e) : e \in TransportErrors}
    \cup {Fulfilled(ResponseNoMessage), Fulfilled(ResponseWith(Undefined))}
    \cup {Fulfilled(ResponseWith(JStr(txt))) : txt \in texts}

Corpus ==
  {TextFull, TextMissingKeys, TextOtherKeys, TextDuplicateKey, TextSpaced,
   TextUnquotedKey, TextTrailingComma, TextProse, TextNumber, TextString,
   TextNull, TextTrue, TextArray}

Alphabet == {"{", "}", "[", "]", "\"", ":", ",", "1", "0", "a", " "}

\* Every text over Alphabet of length at most n.
ShortTexts(n) == UNION {[1..k -> Alphabet] : k \in 0..n}

\* The replies of the concurrent specification: no text, an object, not JSON.
FewTexts == {<< >>, TextFull, TextUnquotedKey}

\* The replies of the single-invocation specification.
ManyTexts == Corpus \cup ShortTexts(MaxLen)

Cities == {"", "London", "Paris"}

Calls == 1..MaxCalls

(***************************************************************************)
(* getChatResponse                                                         *)
(***************************************************************************)
Host == "http://127.0.0.1:11434"

Model == "gemma:2b"

VARIABLES
  pc,        \* where invocation i stands: idle, awaiting, settled, reported
  city,      \* its argument
  ollama,    \* its client handle
  messages,  \* its message list
  requests,  \* the requests it has issued to the endpoint, in order
  chat,      \* the promise ollama.chat returned to it
  result,    \* the promise getChatResponse returned to its caller
  settles,   \* how many times that promise has been settled
  steps,     \* the functions it has called, in order
  console    \* what it has written with console.log and console.error

vars == <<pc, city, ollama, messages, requests, chat, result, settles, steps, console>>

\* A variant of the message that leaves the city out.
FailureMessageNoCity(c) == "Failed to get chat response"

\* The message of the error the catch block throws.
FailureMessage(c) == "Failed to get chat response for city: " \o c

\* The try block after the await, for a fulfilled ollama.chat.
TryBody(response) ==
  IF isValidResponse(response)
  THEN safeJsonParse(response.message.content.v)
  ELSE Throw(ChatResponseError("Invalid response structure", response))

\* The try block from the await on: the awaited promise's rejection is thrown
\* at the await.
TryBlock(settled) ==
  IF settled.state = "rejected" THEN Throw(settled.value) ELSE TryBody(settled.value)

\* A variant whose catch block throws a ChatResponseError on as it is.
TryCatchRethrow(c, settled) ==
  IF ~TryBlock(settled).threw THEN TryBlock(settled)
  ELSE IF TryBlock(settled).value.name = "ChatResponseError" THEN TryBlock(settled)
  ELSE Throw(ChatResponseError(FailureMessage(c), TryBlock(settled).value))

\* A variant whose catch block returns an empty object for a reply it could
\* not parse.
TryCatchFallback(c, settled) ==
  IF ~TryBlock(settled).threw THEN TryBlock(settled)
  ELSE IF TryBlock(settled).value.message = "Failed to parse JSON"
    THEN Return(JObj(<< >>))
  ELSE Throw(ChatResponseError(FailureMessage(c), TryBlock(settled).value))

\* try { ... } catch (error) { throw new ChatResponseError(..., error) }
TryCatch(c, settled) ==
  LET done == TryBlock(settled) IN
  IF done.threw THEN Throw(ChatResponseError(FailureMessage(c), done.value))
  ELSE done

\* An async function's promise: fulfilled by its return, rejected by its throw.
Settle(done) == IF done.threw THEN Rejected(done.value) ELSE Fulfilled(done.value)

\* The functions the try block calls after the await.
TrySteps(settled) ==
  IF settled.state = "rejected" THEN << >>
  ELSE IF isValidResponse(settled.value)
    THEN <<"isValidResponse", "safeJsonParse", "JSON.parse">>
  ELSE <<"isValidResponse">>

\* What the invocation logs after the await.
TryLog(c, settled) ==
  LET done == TryBlock(settled) IN
  (IF settled.state = "rejected" THEN << >>
   ELSE << [stream |-> "log", label |-> "Raw ChatResponse:", value |-> settled.value] >>)
  \o (IF done.threw
      THEN << [stream |-> "error", label |-> "Error fetching chat response:",
               value |-> done.value] >>
      ELSE << [stream |-> "log", label |-> "Parsed Chat Response:",
               value |-> done.value] >>)

Init ==
  /\ pc = [i \in Calls |-> "idle"]
  /\ city = [i \in Calls |-> ""]
  /\ ollama = [i \in Calls |-> Undefined]
  /\ messages = [i \in Calls |-> << >>]
  /\ requests = [i \in Calls |-> << >>]
  /\ chat = [i \in Calls |-> Pending]
  /\ result = [i \in Calls |-> Pending]
  /\ settles = [i \in Calls |-> 0]
  /\ steps = [i \in Calls |-> << >>]
  /\ console = [i \in Calls |-> << >>]

\* A variant that keeps the city in one variable shared by all invocations.
CallShared(i, c) ==
  /\ pc[i] = "idle"
  /\ pc' = [pc EXCEPT ![i] = "awaiting"]
  /\ city' = [j \in Calls |-> c]
  /\ ollama' = [ollama EXCEPT ![i] = [t |-> "Ollama", host |-> Host]]
  /\ messages' = [messages EXCEPT ![i] = constructMessages(c, ChatSchema)]
  /\ requests' = [requests EXCEPT ![i] =
                    Append(@, [model |-> Model,
                               messages |-> constructMessages(c, ChatSchema)])]
  /\ steps' = [steps EXCEPT ![i] = <<"new Ollama", "constructMessages", "ollama.chat">>]
  /\ UNCHANGED <<chat, result, settles, console>>

\* getChatResponse(c) up to the await: the client, the schema, the messages
\* and the one request.
Call(i, c) ==
  /\ pc[i] = "idle"
  /\ pc' = [pc EXCEPT ![i] = "awaiting"]
  /\ city' = [city EXCEPT ![i] = c]
  /\ ollama' = [ollama EXCEPT ![i] = [t |-> "Ollama", host |-> Host]]
  /\ messages' = [messages EXCEPT ![i] = constructMessages(c, ChatSchema)]
  /\ requests' = [requests EXCEPT ![i] =
                    Append(@, [model |-> Model,
                               messages |-> constructMessages(c, ChatSchema)])]
  /\ steps' = [steps EXCEPT ![i] = <<"new Ollama", "constructMessages", "ollama.chat">>]
  /\ UNCHANGED <<chat, result, settles, console>>

\* The endpoint answers invocation i with one of the texts or without text, or
\* the transport fails.
ChatSettles(i, texts) ==
  /\ pc[i] = "awaiting"
  /\ chat[i].state = "pending"
  /\ \E settled \in Settlements(texts) : chat' = [chat EXCEPT ![i] = settled]
  /\ UNCHANGED <<pc, city, ollama, messages, requests, result, settles, steps, console>>

\* getChatResponse from the await to its return or throw.
Resume(i) ==
  /\ pc[i] = "awaiting"
  /\ chat[i].state # "pending"
  /\ pc' = [pc EXCEPT ![i] = "settled"]
  /\ result' = [result EXCEPT ![i] = Settle(TryCatch(city[i], chat[i]))]
  /\ settles' = [settles EXCEPT ![i] = @ + 1]
  /\ steps' = [steps EXCEPT ![i] = @ \o TrySteps(chat[i])]
  /\ console' = [console EXCEPT ![i] = @ \o TryLog(city[i], chat[i])]
  /\ UNCHANGED <<city, ollama, messages, requests, chat>>

\* The caller's handlers: .then logs the value, .catch logs the error.
Report(i) ==
  /\ pc[i] = "settled"
  /\ pc' = [pc EXCEPT ![i] = "reported"]
  /\ console' = [console EXCEPT ![i] =
       Append(@, IF result[i].state = "fulfilled"
                 THEN [stream |-> "log", label |-> "Final Parsed Response:",
                       value |-> result[i].value]
                 ELSE [stream |-> "error", label |-> "Error:",
                       value |-> result[i].value])]
  /\ UNCHANGED <<city, ollama, messages, requests, chat, result, settles, steps>>

\* Several invocations in flight, their replies arriving in any order.
Next ==
  \E i \in Calls :
    \/ \E c \in Cities : Call(i, c)
    \/ ChatSettles(i, FewTexts)
    \/ Resume(i)
    \/ Report(i)

Spec == Init /\ [][Next]_vars

\* One invocation, its reply drawn from every short text and the corpus.
NextOne ==
  \/ \E c \in Cities : Call(1, c)
  \/ ChatSettles(1, ManyTexts)
  \/ Resume(1)
  \/ Report(1)

SpecOne == Init /\ [][NextOne]_vars

\* One invocation, its reply drawn from the corpus; once ollama.chat has
\* settled, the job queue runs the rest of getChatResponse.
NextCorpus ==
  \/ \E c \in Cities : Call(1, c)
  \/ ChatSettles(1, Corpus \cup {<< >>})
  \/ Resume(1)
  \/ Report(1)

SpecCorpusFair == Init /\ [][NextCorpus]_vars /\ WF_vars(Resume(1))

(***************************************************************************)
(* Properties.                                                             *)
(***************************************************************************)
\* Invocation i has run to its return or throw.
Settled(i) == pc[i] \in {"settled", "reported"}

\* The text of the reply's message.content, when ollama.chat fulfilled.
Replied(i) == Settled(i) /\ chat[i].state = "fulfilled"

ReplyContent(i) == MessageContent(chat[i].value)

\* The reply holds non-empty text.
HasText(i) == Replied(i) /\ ReplyContent(i).t = "string" /\ ReplyContent(i).v # << >>

\* The reply has no message, or a message without content or with empty content.
LacksText(i) ==
  /\ Replied(i)
  /\ \/ chat[i].value.message.t = "undefined"
     \/ ReplyContent(i).t = "undefined"
     \/ ReplyContent(i) = JStr(<< >>)

\* The three failures of a settled invocation.
RequestFailed(i) == Settled(i) /\ chat[i].state = "rejected"

ParseFailed(i) == HasText(i) /\ JSONparse(ReplyContent(i).v).threw

\* What lines the invocation wrote to console.error.
ErrorLines(i) == {n \in 1..Len(console[i]) : console[i][n].stream = "error"}

\* The object the text TextFull stands for.
ObjectFull ==
  JObj(<< [k |-> <<"c", "i", "t", "y">>, v |-> JStr(<<"L", "o", "n", "d", "o", "n">>)],
          [k |-> <<"i", "n", "d", "u", "s", "t", "r", "y">>,
           v |-> JStr(<<"F", "i", "n", "a", "n", "c", "e">>)],
          [k |-> <<"f", "u", "n">>,
           v |-> JStr(<<"V", "i", "s", "i", "t", " ", "t", "h", "e", " ", "B", "r",
                        "i", "t", "i", "s", "h", " ", "M", "u", "s", "e", "u", "m">>)] >>)

\* The object the text TextMissingKeys stands for.
ObjectMissingKeys ==
  JObj(<< [k |-> <<"c", "i", "t", "y">>, v |-> JStr(<<"P", "a", "r", "i", "s">>)] >>)

InvalidStructureError(i) == ChatResponseError("Invalid response structure", chat[i].value)

\* C2 as stated: for a reply without message, without content or with empty
\* content, the error surfaced to the caller is the InvalidResponseStructure
\* error, carrying the raw response as its cause, and no JSON parse is attempted.
C2_InvalidStructureSurfaced ==
  \A i \in Calls :
    LacksText(i) =>
      /\ result[i] = Rejected(InvalidStructureError(i))
      /\ \A n \in 1..Len(steps[i]) : steps[i][n] \notin {"safeJsonParse", "JSON.parse"}

\* C2 amended: for such a reply the validation branch raises the
\* InvalidResponseStructure error with the raw response as its cause and no
\* JSON parse is attempted; the caller receives the error
\* "Failed to get chat response for city: <city>" whose cause is that error.
C2_InvalidStructureWrapped ==
  \A i \in Calls :
    LacksText(i) =>
      /\ result[i] = Rejected(ChatResponseError(FailureMessage(city[i]),
                                                InvalidStructureError(i)))
      /\ result[i].value.cause.cause = chat[i].value
      /\ \A n \in 1..Len(steps[i]) : steps[i][n] \notin {"safeJsonParse", "JSON.parse"}

\* C2 witness: an invocation has settled on a reply with empty content.
C2_Witness ==
  \E i \in Calls :
    /\ Replied(i) /\ ReplyContent(i) = JStr(<< >>)
    /\ result[i].state = "rejected"

\* The error safeJsonParse raises for invocation i's reply: the exception of
\* JSON.parse and the raw text.
ParseFailureError(i) ==
  ChatResponseError("Failed to parse JSON",
    [cause |-> JSONparse(ReplyContent(i).v).error, rawResponse |-> ReplyContent(i).v])

\* C3 as stated: for non-empty text that is not JSON the request fails with
\* the ParseFailure error, whose cause holds the parse exception and the raw
\* text.
C3_ParseFailureSurfaced ==
  \A i \in Calls : ParseFailed(i) => result[i] = Rejected(ParseFailureError(i))

\* C3 amended: for non-empty text that is not JSON the request fails with the
\* error "Failed to get chat response for city: <city>" whose cause is the
\* ParseFailure error; that error's cause holds the SyntaxError of JSON.parse
\* and the raw content text unchanged.
C3_ParseFailureWrapped ==
  \A i \in Calls :
    ParseFailed(i) =>
      /\ result[i] = Rejected(ChatResponseError(FailureMessage(city[i]),
                                                ParseFailureError(i)))
      /\ result[i].value.cause.cause.rawResponse = ReplyContent(i).v
      /\ result[i].value.cause.cause.cause.name = "SyntaxError"
      /\ result[i].value.cause.cause.cause.at \in 1..(Len(ReplyContent(i).v) + 1)

\* C3 witness: an invocation has settled on the reply with an unquoted key.
C3_Witness ==
  \E i \in Calls :
    /\ Replied(i) /\ ReplyContent(i) = JStr(TextUnquotedKey)
    /\ result[i].state = "rejected"

\* C4: when ollama.chat rejects with E, the caller receives an error whose
\* cause is E and whose message ends in the city queried, and neither the
\* validation nor the parsing step has run.
C4_RequestFailure ==
  \A i \in Calls :
    RequestFailed(i) =>
      /\ result[i].state = "rejected"
      /\ result[i].value.name = "ChatResponseError"
      /\ result[i].value.cause = chat[i].value
      /\ result[i].value.message = "Failed to get chat response for city: " \o city[i]
      /\ steps[i] = <<"new Ollama", "constructMessages", "ollama.chat">>

\* C4 witness: an invocation for London has settled after the transport failed.
C4_Witness ==
  \E i \in Calls :
    /\ RequestFailed(i) /\ city[i] = "London" /\ chat[i].value = FetchFailed
    /\ result[i].state = "rejected"

\* The failure class of a settled invocation, read off its transport reply.
FailureKind(i) ==
  IF RequestFailed(i) THEN "RequestFailure"
  ELSE IF LacksText(i) THEN "InvalidResponseStructure"
  ELSE IF ParseFailed(i) THEN "ParseFailure"
  ELSE "none"

Failed(i) == Settled(i) /\ result[i].state = "rejected"

\* C5 as stated: the error a caller receives identifies the failure class by
\* its name: failures of different kinds never present the same name.
C5_NameDiscriminates ==
  \A i, j \in Calls :
    (Failed(i) /\ Failed(j) /\ FailureKind(i) # FailureKind(j))
      => result[i].value.name # result[j].value.name

\* C5 amended: the three kinds share one error shape (name, message, cause)
\* and one name, ChatResponseError, and for one city one message; the caller
\* tells them apart by the cause alone: the transport error for a request
\* failure, the "Invalid response structure" error for a reply without text,
\* the "Failed to parse JSON" error for text that is not JSON. Failures of
\* different kinds never present the same cause.
C5_CauseDiscriminates ==
  \A i, j \in Calls :
    /\ Failed(i) =>
         /\ DOMAIN result[i].value = {"name", "message", "cause"}
         /\ result[i].value.name = "ChatResponseError"
         /\ result[i].value.message = FailureMessage(city[i])
         /\ FailureKind(i) \in {"RequestFailure", "InvalidResponseStructure",
                                "ParseFailure"}
         /\ FailureKind(i) = "RequestFailure"
              => result[i].value.cause \in TransportErrors
         /\ FailureKind(i) = "InvalidResponseStructure"
              => /\ result[i].value.cause.name = "ChatResponseError"
                 /\ result[i].value.cause.message = "Invalid response structure"
         /\ FailureKind(i) = "ParseFailure"
              => /\ result[i].value.cause.name = "ChatResponseError"
                 /\ result[i].value.cause.message = "Failed to parse JSON"
    /\ (Failed(i) /\ Failed(j) /\ FailureKind(i) # FailureKind(j))
         => result[i].value.cause # result[j].value.cause

\* C5 witness: two invocations for one city have failed, one on the transport
\* and one on text that is not JSON.
C5_Witness ==
  \E i, j \in Calls :
    /\ Failed(i) /\ Failed(j) /\ city[i] = city[j]
    /\ FailureKind(i) = "RequestFailure"
    /\ FailureKind(j) = "ParseFailure"

\* The reply is JSON, but not an object.
NonObjectJson(i) ==
  /\ HasText(i)
  /\ ~JSONparse(ReplyContent(i).v).threw
  /\ JSONparse(ReplyContent(i).v).value.t # "object"

\* C6: for a reply whose text is JSON but no object (a number, a string, a
\* boolean, null or an array) the invocation fails, and the failure is the
\* ParseFailure error with the raw text attached.
C6_NonObjectRejected ==
  \A i \in Calls :
    NonObjectJson(i) =>
      /\ result[i].state = "rejected"
      /\ result[i].value.cause.message = "Failed to parse JSON"
      /\ result[i].value.cause.cause.rawResponse = ReplyContent(i).v

\* What JSON.stringify(schema, null, 2) yields for the schema literal.
SchemaText ==
  "{\n"
  \o "  \"city\": {\n"
  \o "    \"type\": \"string\",\n"
  \o "    \"description\": \"The city where the user is located.\"\n"
  \o "  },\n"
  \o "  \"industry\": {\n"
  \o "    \"type\": \"string\",\n"
  \o "    \"description\": \"The most popular industry in the city. What the city is known for.\"\n"
  \o "  },\n"
  \o "  \"fun\": {\n"
  \o "    \"type\": \"string\",\n"
  \o "    \"description\": \"One thing that is fun to do there on a day off.\"\n"
  \o "  }\n"
  \o "}"

\* C7: for every city, the empty one included, the messages built are exactly
\* two, first a system message whose content holds the serialized schema, then
\* a user message whose content is the city unchanged; they are what the
\* request carries, and two invocations with one city build equal messages.
C7_TwoMessages ==
  \A i, j \in Calls :
    /\ pc[i] # "idle" =>
         /\ Len(messages[i]) = 2
         /\ messages[i][1].role = "system"
         /\ \E before \in {PromptHead}, after \in {PromptTail} :
              messages[i][1].content = before \o SchemaText \o after
         /\ messages[i][2] = [role |-> "user", content |-> city[i]]
         /\ requests[i][1].messages = messages[i]
    /\ (pc[i] # "idle" /\ pc[j] # "idle" /\ city[i] = city[j])
         => messages[i] = messages[j]

\* C7 witness: two invocations have built their messages for the empty city.
C7_Witness ==
  \E i, j \in Calls :
    /\ i # j /\ pc[i] # "idle" /\ pc[j] # "idle"
    /\ city[i] = "" /\ city[j] = ""
    /\ Len(messages[i]) = 2

\* In every state: one request once called; once settled, one settlement,
\* with the parsed value or with an error, and a value only for a reply whose
\* text JSON.parse accepted.
OneAttempt(i) ==
  /\ pc[i] = "idle" => requests[i] = << >> /\ settles[i] = 0
  /\ pc[i] # "idle" =>
       /\ Len(requests[i]) = 1
       /\ requests[i][1].model = "gemma:2b"
  /\ pc[i] = "awaiting" => settles[i] = 0 /\ result[i] = Pending
  /\ Settled(i) =>
       /\ settles[i] = 1
       /\ result[i].state \in {"fulfilled", "rejected"}
       /\ result[i].state = "fulfilled" =>
            /\ HasText(i)
            /\ ~JSONparse(ReplyContent(i).v).threw
            /\ result[i].value = JSONparse(ReplyContent(i).v).value
       /\ result[i].state = "rejected" => FailureKind(i) # "none"

\* In every step: no request after the first, and a settled promise stays as
\* it is.
NoRetry(i) ==
  /\ pc[i] # "idle" => requests'[i] = requests[i]
  /\ result[i].state # "pending" => result'[i] = result[i] /\ settles'[i] = settles[i]

\* C8: one invocation issues exactly one request to the endpoint whatever the
\* outcome, makes no second request after a failure, and settles exactly once
\* after the transport has settled, with the parsed value or with an error and
\* never with a substitute value.
C8_SingleAttempt ==
  /\ [](\A i \in Calls : OneAttempt(i))
  /\ [][\A i \in Calls : NoRetry(i)]_vars
  /\ \A i \in Calls : (chat[i].state # "pending") ~> (result[i].state # "pending")

\* C8 witness: an invocation has settled with an error after a parse failure,
\* having issued one request.
C8_Witness ==
  \E i \in Calls :
    /\ ParseFailed(i) /\ result[i].state = "rejected"
    /\ Len(requests[i]) = 1 /\ settles[i] = 1

\* The city invocation i was called with, as its request carries it.
CityAsked(i) == requests[i][1].messages[2].content

\* The state that belongs to invocation i.
Own(i) ==
  <<pc[i], city[i], ollama[i], messages[i], requests[i], chat[i], result[i],
    settles[i], steps[i], console[i]>>

\* C9: with several invocations in flight and their replies arriving in any
\* order, an invocation's outcome is decided by its own city and its own reply:
\* invocations with one city and one reply have one outcome, the error names
\* the city the invocation was called with, every invocation has a client
\* handle and a message list of its own, and no step of one invocation changes
\* the state of another.
C9_Independent ==
  /\ [](\A i, j \in Calls :
          /\ (Settled(i) /\ Settled(j) /\ CityAsked(i) = CityAsked(j)
                /\ chat[i] = chat[j])
             => result[i] = result[j]
          /\ Failed(i) => result[i].value.message = FailureMessage(CityAsked(i))
          /\ pc[i] # "idle" =>
               /\ ollama[i] = [t |-> "Ollama", host |-> "http://127.0.0.1:11434"]
               /\ messages[i][2].content = CityAsked(i))
  /\ [][\E i \in Calls : \A j \in Calls \ {i} : Own(j)' = Own(j)]_vars

\* C9 witness: two invocations for different cities have both failed, the one
\* called first settling last.
C9_Witness ==
  \E i, j \in Calls :
    /\ i # j /\ Failed(i) /\ pc[j] = "reported" /\ pc[i] = "settled"
    /\ Failed(j) /\ city[i] = "London" /\ city[j] = "Paris"

\* The error raised inside the try block of a failed invocation.
InnerError(i) ==
  IF FailureKind(i) = "RequestFailure" THEN chat[i].value
  ELSE IF FailureKind(i) = "InvalidResponseStructure" THEN InvalidStructureError(i)
  ELSE ParseFailureError(i)

\* C10: every rejection reaches the caller as a ChatResponseError named
\* ChatResponseError with the message "Failed to get chat response for city:
\* <city>" whose cause is the error raised inside the try block (the transport
\* error, the "Invalid response structure" error or the "Failed to parse JSON"
\* error); the inner errors are wrapped exactly once and never reach the caller
\* unwrapped.
C10_WrappedOnce ==
  \A i \in Calls :
    Failed(i) =>
      /\ result[i].value.name = "ChatResponseError"
      /\ result[i].value.message = "Failed to get chat response for city: " \o city[i]
      /\ result[i].value.cause = InnerError(i)
      /\ result[i].value.message \notin {"Invalid response structure",
                                         "Failed to parse JSON"}
      /\ result[i].value.cause.message # result[i].value.message
      /\ \E n \in 1..Len(console[i]) :
           console[i][n] = [stream |-> "error",
                            label |-> "Error fetching chat response:",
                            value |-> InnerError(i)]

\* C10 witness: an invocation has rejected after the validation branch threw.
C10_Witness ==
  \E i \in Calls :
    /\ Failed(i) /\ FailureKind(i) = "InvalidResponseStructure"
    /\ chat[i].value = ResponseNoMessage
====
